---- MODULE Spec2Model ----
(***************************************************************************)
(* Model of the Libero project descriptor (tsfpga/libero/project.py) and   *)
(* of the script generator it drives (tsfpga/libero/tcl.py).               *)
(*                                                                         *)
(* Texts (the part string, the template, the generated script) are         *)
(* sequences of atoms, an atom being a STRING that holds no "-", no "/"    *)
(* and no newline of its own.  Paths are absolute and are sequences of     *)
(* components [stem, suffix].  Python dicts are insertion-ordered          *)
(* sequences of entries [k, v].  Mutable containers live in a heap and     *)
(* are held by reference, so that aliasing between the caller's            *)
(* containers and the descriptor's is something the model can get wrong.   *)
(***************************************************************************)
EXTENDS Naturals, Sequences, FiniteSets, TLC

VARIABLES
    heap,   \* object store: reference (index) -> contents of a mutable container
    caller, \* the references the caller still holds to the containers it built
    self,   \* the LiberoProject instance: its attributes (containers by reference)
    fs,     \* the file system under the project paths: directory and script file
    last    \* the most recent operation, its inputs, its outcome and what it saw

vars == <<heap, caller, self, fs, last>>

----------------------------------------------------------------------------
(* Bounds of the model *)

\* longest container the caller builds or grows to
MaxLen == 2
\* longest module list a descriptor is constructed with
MaxModules == 3
\* longest synthesis-file list of a module
MaxFiles == 3
\* most dash-separated segments of a part string
MaxSegments == 4

----------------------------------------------------------------------------
(* Python values *)

\* an optional value: None, or Some(v)
NoneStr == [isNone |-> TRUE, s |-> ""]
SomeStr(s) == [isNone |-> FALSE, s |-> s]
NoneDict == [isNone |-> TRUE, d |-> <<>>]
SomeDict(d) == [isNone |-> FALSE, d |-> d]

\* a value held in a keyword-argument bag: a string (as text), or a dict
StrValue(text) == [t |-> "str", s |-> text, d |-> <<>>]
DictValue(d) == [t |-> "dict", s |-> <<>>, d |-> d]

HasKey(d, k) == \E i \in 1..Len(d) : d[i].k = k

\* dict[k], for a key the dict holds
DictGet(d, k) == d[CHOOSE i \in 1..Len(d) : d[i].k = k].v

\* dict[k] = v: a held key keeps its place, a new key goes last
DictSet(d, k, v) ==
    IF HasKey(d, k)
    THEN [i \in 1..Len(d) |-> IF d[i].k = k THEN [k |-> k, v |-> v] ELSE d[i]]
    ELSE Append(d, [k |-> k, v |-> v])

RECURSIVE DictUpdate(_, _)
\* dict.update(other): other's entries are set one by one, in other's order
DictUpdate(d, other) ==
    IF other = <<>> THEN d
    ELSE DictUpdate(DictSet(d, Head(other).k, Head(other).v), Tail(other))

\* dict.copy(): a new dict with the same entries
DictCopy(d) == d

----------------------------------------------------------------------------
(* project.py: copy_and_combine_dicts *)

\* a combination that prefers the values of the first dict
copy_and_combine_first_wins(dict_first, dict_second) ==
    IF dict_first.isNone /\ dict_second.isNone THEN NoneDict
    ELSE IF dict_first.isNone THEN SomeDict(DictCopy(dict_second.d))
    ELSE IF dict_second.isNone THEN SomeDict(DictCopy(dict_first.d))
    ELSE SomeDict(DictUpdate(DictCopy(dict_second.d), dict_first.d))

copy_and_combine_dicts(dict_first, dict_second) ==
    IF dict_first.isNone /\ dict_second.isNone THEN NoneDict
    ELSE IF dict_first.isNone THEN SomeDict(DictCopy(dict_second.d))
    ELSE IF dict_second.isNone THEN SomeDict(DictCopy(dict_first.d))
    ELSE SomeDict(DictUpdate(DictCopy(dict_first.d), dict_second.d))

----------------------------------------------------------------------------
(* Strings as texts: str.split, str.replace *)

\* text.split(sep): the segments between the separators, empty ones kept;
\* always at least one segment
Split(text, sep) ==
    LET cuts == {0, Len(text) + 1} \cup {i \in 1..Len(text) : text[i] = sep}
        Cut(n) == CHOOSE c \in cuts : Cardinality({b \in cuts : b < c}) = n - 1
    IN  [n \in 1..(Cardinality(cuts) - 1) |-> SubSeq(text, Cut(n) + 1, Cut(n + 1) - 1)]

RECURSIVE Replace(_, _, _)
\* text.replace(old, new): every occurrence of the atom `old`
Replace(text, old, new) ==
    IF text = <<>> THEN <<>>
    ELSE (IF Head(text) = old THEN new ELSE <<Head(text)>>)
         \o Replace(Tail(text), old, new)

----------------------------------------------------------------------------
(* Paths: pathlib.Path.resolve, os.path.relpath, str(path) *)

Dir(name) == [stem |-> name, suffix |-> ""]
File(stem, suffix) == [stem |-> stem, suffix |-> suffix]
PathStem(path) == path[Len(path)].stem
PathSuffix(path) == path[Len(path)].suffix

RECURSIVE NormFrom(_, _)
\* `rest` appended to the normalised `done`: ".." steps out of the last component
NormFrom(done, rest) ==
    IF rest = <<>> THEN done
    ELSE IF Head(rest) = Dir("..")
         THEN NormFrom(IF done = <<>> THEN <<>> ELSE SubSeq(done, 1, Len(done) - 1),
                       Tail(rest))
    ELSE IF Head(rest) = Dir(".") THEN NormFrom(done, Tail(rest))
    ELSE NormFrom(Append(done, Head(rest)), Tail(rest))

\* Path.resolve() of an absolute path on a file system without symbolic links
Resolve(path) == NormFrom(<<>>, path)

RECURSIVE CommonPrefixLen(_, _)
CommonPrefixLen(a, b) ==
    IF a = <<>> \/ b = <<>> \/ Head(a) # Head(b) THEN 0
    ELSE 1 + CommonPrefixLen(Tail(a), Tail(b))

\* os.path.relpath(path, start), as a sequence of components
RelPath(path, start) ==
    LET start_list == NormFrom(<<>>, start)
        path_list == NormFrom(<<>>, path)
        i == CommonPrefixLen(start_list, path_list)
        rel_list == [j \in 1..(Len(start_list) - i) |-> Dir("..")]
                    \o SubSeq(path_list, i + 1, Len(path_list))
    IN  IF rel_list = <<>> THEN <<Dir(".")>> ELSE rel_list

\* one component as text
CompText(c) == IF c.suffix = "" THEN <<c.stem>> ELSE <<c.stem, c.suffix>>

RECURSIVE JoinComps(_)
\* os.sep.join of the components
JoinComps(comps) ==
    IF comps = <<>> THEN <<>>
    ELSE IF Len(comps) = 1 THEN CompText(comps[1])
    ELSE CompText(Head(comps)) \o <<"/">> \o JoinComps(Tail(comps))

\* str(path) of an absolute path
PathStr(path) == <<"/">> \o JoinComps(path)

\* tcl.py: to_tcl_path
to_tcl_path(path, project_folder) == JoinComps(RelPath(Resolve(path), project_folder))

----------------------------------------------------------------------------
(* list.sort(key=..., reverse=True) over [key, item] pairs, key a boolean *)

\* Python orders False < True
KeyGE(a, b) == a \/ ~b

\* x put behind every element whose key is not smaller: equal keys keep their order
InsertReverse(sorted, x) ==
    LET n == Cardinality({i \in 1..Len(sorted) : KeyGE(sorted[i].key, x.key)})
    IN  SubSeq(sorted, 1, n) \o <<x>> \o SubSeq(sorted, n + 1, Len(sorted))

RECURSIVE SortFrom(_, _)
SortFrom(sorted, rest) ==
    IF rest = <<>> THEN sorted
    ELSE SortFrom(InsertReverse(sorted, Head(rest)), Tail(rest))

\* a reverse sort that is not stable: elements of equal key come out reversed
SortReverseUnstable(keyed) ==
    LET s == SortFrom(<<>>, keyed)
        tops == SelectSeq(s, LAMBDA e : e.key)
        rest == SelectSeq(s, LAMBDA e : ~e.key)
    IN  tops \o [i \in 1..Len(rest) |-> rest[Len(rest) + 1 - i]]

\* the sort without reverse=True: the smaller key (False) first
SortNotReversed(keyed) ==
    SelectSeq(keyed, LAMBDA e : ~e.key) \o SelectSeq(keyed, LAMBDA e : e.key)

\* keyed.sort(key=lambda e: e.key, reverse=True): stable, larger key first
SortReverse(keyed) == SortFrom(<<>>, keyed)

Items(keyed) == [i \in 1..Len(keyed) |-> keyed[i].item]

----------------------------------------------------------------------------
(* Collaborators of the generator that live outside tcl.py *)

\* module.get_synthesis_files(**other_arguments): the module's ordered HDL files
get_synthesis_files(module, other_arguments) == module.synthesis_files

\* module.get_ip_core_files(**other_arguments): the module's ordered IP core files
get_ip_core_files(module, other_arguments) == module.ip_core_files

\* libero/template.tcl: one line per placeholder, then the file statements
Template ==
    << "project", "__project__", "\n",
       "part", "__part__", "\n",
       "family", "__family__", "\n",
       "device", "__device__", "\n",
       "package", "__package__", "\n",
       "speed", "__speed__", "\n",
       "temp_range", "__temp_range__", "\n",
       "top", "__top__", "\n",
       "destination", "__destination__", "\n",
       "__fpga_files__" >>

----------------------------------------------------------------------------
(* tcl.py: LiberoTcl.create *)

\* parts = part.split("-")
PartSegments(part) == Split(part, "-")

\* the segment the claimed decomposition would take as the speed
SpeedThird(parts) == parts[3]

\* device = parts[0]
Device(parts) == parts[1]

\* speed = parts[1]
Speed(parts) == parts[2]

\* package = parts[2]
Package(parts) == parts[3]

\* temp_range = parts[3] if len(parts) > 3 else "COM"
TempRange(parts) == IF Len(parts) > 3 THEN parts[4] ELSE <<"COM">>

\* the subscripts parts[0], parts[1], parts[2] are all in range
PartIndexable(parts) == Len(parts) >= 3

\* modules._modules.sort(key=lambda m: m.name == top, reverse=True)
SortModules(modules, top) ==
    Items(SortReverse([i \in 1..Len(modules) |->
        [key |-> modules[i].name = top, item |-> modules[i]]]))

\* synthesis_files.sort(key=lambda f: f.path.stem == top, reverse=True)
SortFiles(synthesis_files, top) ==
    Items(SortReverse([i \in 1..Len(synthesis_files) |->
        [key |-> PathStem(synthesis_files[i].path) = top, item |-> synthesis_files[i]]]))

\* the statement of one HDL file: no library for the module whose library is top
HdlStatement(hdl_file, module, top, project_folder) ==
    LET hdl_file_path == to_tcl_path(hdl_file.path, project_folder)
    IN  IF module.library_name = top
        THEN <<"fpga_file", "{">> \o hdl_file_path \o <<"}", "\n">>
        ELSE <<"fpga_file", "{">> \o hdl_file_path
             \o <<"}", " ", module.library_name, "\n">>

\* the statement of one IP core file: only .cxf files get one
IpCoreStatement(ip_core_file, project_folder) ==
    IF PathSuffix(ip_core_file.path) = ".cxf"
    THEN <<"fpga_file", "{">> \o to_tcl_path(ip_core_file.path, project_folder)
         \o <<"}", "\n">>
    ELSE <<>>

\* a statement chosen by the extension, as _add_constraints chooses it
ConstraintStatementRouted(constraint, project_folder) ==
    LET constraint_file == to_tcl_path(constraint.file, project_folder)
    IN  IF PathSuffix(constraint.file) = ".pdc"
        THEN <<"create_links", "-pdc", "{">> \o constraint_file \o <<"}", "\n">>
        ELSE IF PathSuffix(constraint.file) = ".sdc"
        THEN <<"create_links", "-sdc", "{">> \o constraint_file \o <<"}", "\n">>
        ELSE <<>>

\* the statement of one project constraint: the same for every extension
ConstraintStatement(constraint, project_folder) ==
    <<"fpga_file", "{">> \o to_tcl_path(constraint.file, project_folder) \o <<"}", "\n">>

RECURSIVE ConcatRange(_, _, _)
ConcatRange(texts, lo, hi) ==
    IF lo > hi THEN <<>>
    ELSE IF lo = hi THEN texts[lo]
    ELSE ConcatRange(texts, lo, (lo + hi) \div 2)
         \o ConcatRange(texts, (lo + hi) \div 2 + 1, hi)

\* the texts of a sequence, one after the other
Concat(texts) == ConcatRange(texts, 1, Len(texts))

\* the body of "for module in modules": its HDL files, top file first, then its IP cores
ModuleStatements(module, top, project_folder, other_arguments) ==
    LET synthesis_files == SortFiles(get_synthesis_files(module, other_arguments), top)
        ip_core_files == get_ip_core_files(module, other_arguments)
    IN  Concat([i \in 1..Len(synthesis_files) |->
                    HdlStatement(synthesis_files[i], module, top, project_folder)])
        \o Concat([i \in 1..Len(ip_core_files) |->
                    IpCoreStatement(ip_core_files[i], project_folder)])

\* the text accumulated in `tcl`: the modules' statements, then the constraints'
FpgaFiles(modules, top, project_folder, constraints, other_arguments) ==
    Concat([i \in 1..Len(modules) |->
                ModuleStatements(modules[i], top, project_folder, other_arguments)])
    \o Concat([i \in 1..Len(constraints) |->
                ConstraintStatement(constraints[i], project_folder)])

\* the replacements made in the template, in the order the code makes them
Substitute(template, name, part, family, parts, top, project_folder, tcl) ==
    LET r1 == Replace(template, "__project__", <<name>>)
        r2 == Replace(r1, "__part__", part)
        r3 == Replace(r2, "__family__", <<family>>)
        r4 == Replace(r3, "__device__", Device(parts))
        r5 == Replace(r4, "__package__", Package(parts))
        r6 == Replace(r5, "__speed__", Speed(parts))
        r7 == Replace(r6, "__temp_range__", TempRange(parts))
        r8 == Replace(r7, "__top__", <<top>>)
        r9 == Replace(r8, "__destination__", PathStr(project_folder))
    IN  Replace(r9, "__fpga_files__", tcl)

\* LiberoTcl.create: what it raises, the module list it leaves (sorted in place
\* once the part has been taken apart), and the text it returns
LiberoTcl_create(name, project_folder, modules, part, family, top, constraints, other_arguments) ==
    LET parts == PartSegments(part)
        sorted == SortModules(modules, top)
    IN  IF ~PartIndexable(parts)
        THEN [raised |-> "IndexError", modules |-> modules, tcl_result |-> <<>>]
        ELSE [raised |-> "",
              modules |-> sorted,
              tcl_result |-> Substitute(Template, name, part, family, parts, top,
                                        project_folder,
                                        FpgaFiles(sorted, top, project_folder,
                                                  constraints, other_arguments))]

----------------------------------------------------------------------------
(* The heap: list.copy(), dict.copy(), deepcopy *)

\* the reference that stands for None
NoRef == 0

\* no copy at all: the descriptor keeps the caller's own container
CopyAliased(h, ref) ==
    IF ref = NoRef THEN [heap |-> Append(h, <<>>), ref |-> Len(h) + 1]
    ELSE [heap |-> h, ref |-> ref]

\* `[] if x is None else x.copy()`: a new container, with the same elements
CopyContainer(h, ref) ==
    IF ref = NoRef THEN [heap |-> Append(h, <<>>), ref |-> Len(h) + 1]
    ELSE [heap |-> Append(h, h[ref]), ref |-> Len(h) + 1]

\* deepcopy(x): a new container with copies of the elements.  The container it
\* replaces is unreachable afterwards unless somebody else (`roots`) holds it,
\* and then its slot is the one the copy takes.
DeepCopy(h, ref, roots) ==
    IF ref \in roots THEN [heap |-> Append(h, h[ref]), ref |-> Len(h) + 1]
    ELSE [heap |-> h, ref |-> ref]

----------------------------------------------------------------------------
(* project.py: LiberoProject.__init__ *)

\* an inference that forgets the prefix
InferTopNoPrefix(name, top) == IF top.isNone THEN name ELSE top.s

\* self.top = "top_" + name if top is None else top
InferTop(name, top) == IF top.isNone THEN "top_" \o name ELSE top.s

\* the heap and the instance after __init__; the arguments that are containers
\* come as references (NoRef for None), other_arguments is the **kwargs dict
LiberoProject_init(h, name, modules, part, family, top, generics, constraints, tcl_sources, build_step_hooks, other_arguments) ==
    LET c1 == CopyContainer(h, modules)
        c2 == CopyContainer(c1.heap, generics)
        c3 == CopyContainer(c2.heap, constraints)
        c4 == CopyContainer(c3.heap, tcl_sources)
        c5 == CopyContainer(c4.heap, build_step_hooks)
    IN  [heap |-> c5.heap,
         self |-> [name |-> name,
                   modules |-> c1.ref,
                   part |-> part,
                   family |-> family,
                   static_generics |-> c2.ref,
                   constraints |-> c3.ref,
                   tcl_sources |-> c4.ref,
                   build_step_hooks |-> c5.ref,
                   other_arguments |-> DictCopy(other_arguments),
                   top |-> InferTop(name, top)]]

----------------------------------------------------------------------------
(* The file system under the project paths *)

NoScript == [has |-> FALSE, text |-> <<>>]
ScriptFile(text) == [has |-> TRUE, text |-> text]
Absent == [exists |-> FALSE, script |-> NoScript]
EmptyDir == [exists |-> TRUE, script |-> NoScript]

\* the directories a caller hands to create
ProjectPaths ==
    { <<Dir("build"), Dir("p1")>>, <<Dir("build"), Dir("p2")>>, <<Dir("out")>> }

\* what a pre_create override may do: the result it returns, and whether it
\* creates project_path itself (to put generated sources there)
HookBehaviours == [result : BOOLEAN, mkdir : BOOLEAN]

\* the base class's pre_create: no effect, returns True
BaseHook == [result |-> TRUE, mkdir |-> FALSE]

----------------------------------------------------------------------------
(* project.py: LiberoProject.create, with _create_tcl and pre_create *)

\* the record of an operation that is no create call
NoCall(op) ==
    [op |-> op, path |-> <<>>, extra |-> <<>>, hook |-> BaseHook, result |-> "",
     called |-> FALSE, bag |-> <<>>, before |-> Absent]

\* all_arguments: the two bags combined, then generics and part set
AllArguments(other_arguments, extra, static_generics, part) ==
    DictUpdate(copy_and_combine_dicts(SomeDict(other_arguments), SomeDict(extra)).d,
               << [k |-> "generics", v |-> DictValue(static_generics)],
                  [k |-> "part", v |-> StrValue(part)] >>)

\* pre_create(project_path=..., ip_cache_path=..., **all_arguments) cannot be
\* called when the bag names one of the two parameters again: TypeError
CallClashes(all_arguments) ==
    HasKey(all_arguments, "project_path") \/ HasKey(all_arguments, "ip_cache_path")

\* the steps of a create that looks at the directory and makes it before it asks
\* the hook
CreateStepsDirectoryFirst(before, clashes, hook, gen) ==
    IF before.exists
    THEN [result |-> "ValueError", called |-> FALSE, entry |-> before]
    ELSE IF clashes
    THEN [result |-> "TypeError", called |-> FALSE, entry |-> EmptyDir]
    ELSE IF ~hook.result
    THEN [result |-> "False", called |-> TRUE, entry |-> EmptyDir]
    ELSE IF gen.raised # ""
    THEN [result |-> gen.raised, called |-> TRUE, entry |-> EmptyDir]
    ELSE [result |-> "True", called |-> TRUE,
          entry |-> [exists |-> TRUE, script |-> ScriptFile(gen.tcl_result)]]

\* the steps of a create that catches what the generator raises and reports it
\* as a failed build
CreateStepsCatching(before, clashes, hook, gen) ==
    LET hooked == IF hook.mkdir /\ ~before.exists THEN EmptyDir ELSE before
    IN  IF clashes
        THEN [result |-> "TypeError", called |-> FALSE, entry |-> before]
        ELSE IF ~hook.result
        THEN [result |-> "False", called |-> TRUE, entry |-> hooked]
        ELSE IF hooked.exists
        THEN [result |-> "ValueError", called |-> TRUE, entry |-> hooked]
        ELSE IF gen.raised # ""
        THEN [result |-> "False", called |-> TRUE, entry |-> EmptyDir]
        ELSE [result |-> "True", called |-> TRUE,
              entry |-> [exists |-> TRUE, script |-> ScriptFile(gen.tcl_result)]]

\* the steps of create after the deep copy and the merge of the arguments:
\* what the call returns or raises, whether pre_create was invoked, and what
\* project_path is afterwards.  `before` is project_path as the call finds it,
\* `clashes` says that pre_create cannot be called with the bag, `gen` is
\* what LiberoTcl.create makes of the descriptor.
CreateSteps(before, clashes, hook, gen) ==
    LET hooked == IF hook.mkdir /\ ~before.exists THEN EmptyDir ELSE before
    IN  IF clashes
        THEN \* the call of pre_create itself raises
             [result |-> "TypeError", called |-> FALSE, entry |-> before]
        ELSE IF ~hook.result
        THEN \* the hook declines: return False
             [result |-> "False", called |-> TRUE, entry |-> hooked]
        ELSE IF hooked.exists
        THEN \* _create_tcl: raise ValueError("Folder already exists")
             [result |-> "ValueError", called |-> TRUE, entry |-> hooked]
        ELSE IF gen.raised # ""
        THEN \* project_path.mkdir(parents=True), then LiberoTcl.create raises
             [result |-> gen.raised, called |-> TRUE, entry |-> EmptyDir]
        ELSE \* create_file(create_libero_project_tcl, tcl): return True
             [result |-> "True", called |-> TRUE,
              entry |-> [exists |-> TRUE, script |-> ScriptFile(gen.tcl_result)]]

Create(project_path, extra, hook) ==
    LET dc == DeepCopy(heap, self.modules, {caller.modules})
        all_arguments == AllArguments(self.other_arguments, extra,
                                      dc.heap[self.static_generics], self.part)
        gen == LiberoTcl_create(self.name, project_path, dc.heap[dc.ref], self.part,
                                self.family, self.top, dc.heap[self.constraints],
                                all_arguments)
        out == CreateSteps(fs[project_path], CallClashes(all_arguments), hook, gen)
    IN  /\ self' = [self EXCEPT !.modules = dc.ref]
        /\ heap' = IF out.result = "True"
                   THEN [dc.heap EXCEPT ![dc.ref] = gen.modules]
                   ELSE dc.heap
        /\ fs' = [fs EXCEPT ![project_path] = out.entry]
        /\ last' = [op |-> "create", path |-> project_path, extra |-> extra,
                    hook |-> hook, result |-> out.result, called |-> out.called,
                    bag |-> IF out.called THEN all_arguments ELSE <<>>,
                    before |-> fs[project_path]]
        /\ UNCHANGED caller

\* the caller, a script or a person removes a project directory with all it holds
DeleteDir(project_path) ==
    /\ fs[project_path].exists
    /\ fs' = [fs EXCEPT ![project_path] = Absent]
    /\ last' = NoCall("delete")
    /\ UNCHANGED <<heap, caller, self>>

----------------------------------------------------------------------------
(* The caller's side: the containers it handed to __init__ stay its own *)

SomeList(v) == [isNone |-> FALSE, v |-> v]
NoneList == [isNone |-> TRUE, v |-> <<>>]

ListFields == {"modules", "constraints", "tcl_sources", "build_step_hooks"}

\* container.append(item) on one of the caller's lists
CallerAppend(field, item) ==
    /\ caller[field] # NoRef
    /\ Len(heap[caller[field]]) < MaxLen
    /\ heap' = [heap EXCEPT ![caller[field]] = Append(@, item)]
    /\ last' = NoCall("append")
    /\ UNCHANGED <<caller, self, fs>>

\* container.pop() on one of the caller's lists, generics.popitem() on its dict
CallerRemove(field) ==
    /\ caller[field] # NoRef
    /\ heap[caller[field]] # <<>>
    /\ heap' = [heap EXCEPT ![caller[field]] = SubSeq(@, 1, Len(@) - 1)]
    /\ last' = NoCall("remove")
    /\ UNCHANGED <<caller, self, fs>>

\* generics[k] = v on the caller's dict
CallerSetGeneric(k, v) ==
    /\ caller.generics # NoRef
    /\ HasKey(heap[caller.generics], k) \/ Len(heap[caller.generics]) < MaxLen
    /\ DictSet(heap[caller.generics], k, v) # heap[caller.generics]
    /\ heap' = [heap EXCEPT ![caller.generics] = DictSet(@, k, v)]
    /\ last' = NoCall("set")
    /\ UNCHANGED <<caller, self, fs>>

----------------------------------------------------------------------------
(* Construction: the state after LiberoProject(name, modules, part, family, ...) *)

Family == "SmartFusion2"

\* the reference of an optional container argument: the caller's slot, or None
RefOf(arg, slot) == IF arg.isNone THEN NoRef ELSE slot

\* the reference the caller holds after the call: none to a container it built
\* in the call itself and did not keep
KeptRef(a, field, ref) == IF field \in a.kept THEN ref ELSE NoRef

\* the state after the caller has built its containers (slots 1..5 of the heap)
\* and constructed the descriptor with them; `a` holds the arguments
Constructed(a) ==
    LET h0 == << a.modules, a.generics.d, a.constraints.v, a.tcl_sources.v,
                 a.build_step_hooks.v >>
        made == LiberoProject_init(h0, a.name, 1, a.part, Family, a.top,
                                   RefOf(a.generics, 2), RefOf(a.constraints, 3),
                                   RefOf(a.tcl_sources, 4),
                                   RefOf(a.build_step_hooks, 5), a.other_arguments)
    IN  /\ heap = made.heap
        /\ self = made.self
        /\ caller = [name |-> a.name, top |-> a.top,
                     modules |-> KeptRef(a, "modules", 1),
                     generics |-> KeptRef(a, "generics", RefOf(a.generics, 2)),
                     constraints |-> KeptRef(a, "constraints", RefOf(a.constraints, 3)),
                     tcl_sources |-> KeptRef(a, "tcl_sources", RefOf(a.tcl_sources, 4)),
                     build_step_hooks |->
                         KeptRef(a, "build_step_hooks", RefOf(a.build_step_hooks, 5))]
        /\ fs = [p \in ProjectPaths |-> Absent]
        /\ last = NoCall("init")

----------------------------------------------------------------------------
(* The inputs the model draws from *)

\* the sequences over S of length 0..n
SeqsUpTo(S, n) == UNION {[1..k -> S] : k \in 0..n}

RECURSIVE JoinDash(_)
\* "-".join(segments)
JoinDash(segments) ==
    IF Len(segments) = 1 THEN segments[1]
    ELSE segments[1] \o <<"-">> \o JoinDash(Tail(segments))

SegmentPool == { <<"xc7z020">>, <<"clg400">>, <<"1">>, <<"COM">> }

\* a segment may also be empty, as the second of "xc7z020--1"
Segments == SegmentPool \cup { <<>> }

\* the part strings of 1..n segments, and some with empty segments
PartStrings(n) ==
    {JoinDash(segs) : segs \in SeqsUpTo(SegmentPool, n) \ {<<>>}}
    \cup { <<>>, <<"-">>, <<"xc7z020", "-">>, <<"-", "-">>,
           <<"xc7z020", "-", "-", "1">>, <<"xc7z020", "-", "clg400", "-">>,
           <<"xc7z020", "-", "clg400", "-", "1", "-">> }

GoodPart == <<"xc7z020", "-", "clg400", "-", "1">>

HdlFile(dirs, stem, suffix) == [path |-> Append(dirs, File(stem, suffix))]

FilePool ==
    { HdlFile(<<Dir("src")>>, "top_a", ".vhd"),
      HdlFile(<<Dir("src")>>, "top_a", ".v"),
      HdlFile(<<Dir("src"), Dir(".."), Dir("ip")>>, "core", ".vhd") }

Module(name, library_name, synthesis_files, ip_core_files) ==
    [name |-> name, library_name |-> library_name,
     synthesis_files |-> synthesis_files, ip_core_files |-> ip_core_files]

TopModule ==
    Module("top_a", "top_a",
           << HdlFile(<<Dir("src")>>, "pkg", ".vhd"),
              HdlFile(<<Dir("src")>>, "top_a", ".vhd") >>,
           << HdlFile(<<Dir("ip")>>, "pll", ".cxf"),
              HdlFile(<<Dir("ip")>>, "fifo", ".xci") >>)

\* a second module of the same name, in a library of its own
TopTwin ==
    Module("top_a", "twin", << HdlFile(<<Dir("twin")>>, "twin", ".v") >>, <<>>)

CoreModule ==
    Module("core", "core",
           << HdlFile(<<Dir("src"), Dir(".."), Dir("ip")>>, "core", ".vhd") >>, <<>>)

UtilModule ==
    Module("util", "top_a", << HdlFile(<<Dir("build")>>, "util", ".vhd") >>, <<>>)

ModulePool == {TopModule, TopTwin, CoreModule, UtilModule}

Constraint(dirs, stem, suffix) == [file |-> Append(dirs, File(stem, suffix))]

ConstraintPool ==
    { Constraint(<<Dir("con")>>, "pins", ".pdc"),
      Constraint(<<Dir("con")>>, "clocks", ".sdc"),
      Constraint(<<Dir("con")>>, "setup", ".tcl"),
      Constraint(<<Dir("con")>>, "notes", ".foo") }

\* a generic value: a bool, an int or a str, with the text str() gives it
GenericValue(type, text) == [t |-> type, s |-> <<text>>, d |-> <<>>]

BaseGenerics ==
    << [k |-> "enable", v |-> GenericValue("bool", "True")],
       [k |-> "width", v |-> GenericValue("int", "8")] >>

\* the arguments of a plain project: top inferred, three modules with the top
\* module last, one constraint, no further keyword arguments; the caller keeps
\* every container it passed
BaseArgs ==
    [name |-> "a",
     modules |-> <<CoreModule, UtilModule, TopModule>>,
     part |-> GoodPart,
     top |-> NoneStr,
     generics |-> SomeDict(BaseGenerics),
     constraints |-> SomeList(<<Constraint(<<Dir("con")>>, "pins", ".pdc")>>),
     tcl_sources |-> NoneList,
     build_step_hooks |-> NoneList,
     other_arguments |-> <<>>,
     kept |-> {"modules", "generics", "constraints", "tcl_sources", "build_step_hooks"}]

CreateAny(paths, extras, hooks) ==
    \E project_path \in paths, extra \in extras, hook \in hooks :
        Create(project_path, extra, hook)

DeleteAny(paths) == \E project_path \in paths : DeleteDir(project_path)

----------------------------------------------------------------------------
(* Spec: the life of a descriptor over several project directories, with    *)
(* hooks of every behaviour and parts that can and cannot be taken apart    *)

LifeParts ==
    { GoodPart,
      <<"xc7z020", "-", "clg400", "-", "1", "-", "IND">>,
      <<"xc7z020clg400", "-", "1">>,
      <<"xc7z020clg400">> }

LifeExtras == { <<>>, <<[k |-> "mode", v |-> StrValue(<<"fast">>)]>> }

Init == \E part \in LifeParts : Constructed([BaseArgs EXCEPT !.part = part])

Next ==
    \/ CreateAny(ProjectPaths, LifeExtras, HookBehaviours)
    \/ DeleteAny(ProjectPaths)

Spec == Init /\ [][Next]_vars

----------------------------------------------------------------------------
(* Reading a generated script *)

\* the lines of a text
Lines(text) == Split(text, "\n")

\* what follows `key` on the first line that starts with it
Field(text, key) ==
    LET ls == Lines(text)
        i == CHOOSE i \in 1..Len(ls) :
                 /\ ls[i] # <<>> /\ Head(ls[i]) = key
                 /\ \A j \in 1..(i - 1) : ls[j] = <<>> \/ Head(ls[j]) # key
    IN  Tail(ls[i])

\* the file statements of a script, in the order they stand in it
FileStatements(text) == SelectSeq(Lines(text), LAMBDA l : l # <<>> /\ Head(l) = "fpga_file")

\* the last operation was a create call whose pre_create was invoked
HookAsked == last.op = "create" /\ last.called

\* the last operation was a create call that got as far as _create_tcl on a
\* project_path that was not there
Generating ==
    /\ HookAsked
    /\ last.hook.result
    /\ ~last.before.exists
    /\ ~last.hook.mkdir

----------------------------------------------------------------------------
(* C1: hook gating *)

----------------------------------------------------------------------------
(* C2: directory safety *)

----------------------------------------------------------------------------
(* C7: determinism *)

\* what create writes into project_path for the descriptor as it was
\* constructed: the modules in the order the caller gave them
FreshScript(project_path) ==
    LiberoTcl_create(self.name, project_path, heap[caller.modules], self.part,
                     self.family, self.top, heap[self.constraints], <<>>).tcl_result

\* C7, as stated: the scripts that create calls on one descriptor have written
\* into any two project directories are the same text.
C7_AsStated ==
    \A p, q \in ProjectPaths :
        (fs[p].script.has /\ fs[q].script.has) => fs[p].script.text = fs[q].script.text

\* C7, amended: the script a create call writes depends on the descriptor and on
\* the target directory only, not on the calls made before it: whatever
\* reordering and deep copies earlier calls have done, the script in project_path
\* is the text a first call on the freshly constructed descriptor writes for
\* that same project_path.  (Scripts for different directories differ, in the
\* destination and in the file paths, which are relative to the directory.)
C7_Determinism ==
    \A p \in ProjectPaths : fs[p].script.has => fs[p].script.text = FreshScript(p)

\* two directories hold scripts, written by two calls, and the texts differ
C7_Witness ==
    \E p, q \in ProjectPaths :
        /\ p # q
        /\ fs[p].script.has /\ fs[q].script.has
        /\ fs[p].script.text # fs[q].script.text
        /\ last.op = "create" /\ last.result = "True" /\ last.path = q

----------------------------------------------------------------------------
(* SpecPart: descriptors over every part string of up to MaxSegments        *)
(* segments, created in one directory                                       *)

OnePath == { <<Dir("build"), Dir("p1")>> }

InitPart ==
    \E part \in PartStrings(MaxSegments) :
        Constructed([BaseArgs EXCEPT !.part = part, !.modules = <<TopModule>>])

NextPart ==
    \/ CreateAny(OnePath, {<<>>}, HookBehaviours)
    \/ DeleteAny(OnePath)

SpecPart == InitPart /\ [][NextPart]_vars

\* the last operation was a create call that returned True, and its script
Succeeded == last.op = "create" /\ last.result = "True"
Script == fs[last.path].script.text

----------------------------------------------------------------------------
(* C4: part decomposition *)

\* the fields a script holds for a part of the segments s1-s2-s3[-s4], read as
\* the claim reads them: package second, speed third
ClaimedFields(segs) ==
    /\ Field(Script, "device") = segs[1]
    /\ Field(Script, "package") = segs[2]
    /\ Field(Script, "speed") = segs[3]
    /\ Field(Script, "temp_range") = (IF Len(segs) = 4 THEN segs[4] ELSE <<"COM">>)

\* the fields as the generator fills them: speed second, package third
GeneratedFields(segs) ==
    /\ Field(Script, "device") = segs[1]
    /\ Field(Script, "speed") = segs[2]
    /\ Field(Script, "package") = segs[3]
    /\ Field(Script, "temp_range") = (IF Len(segs) = 4 THEN segs[4] ELSE <<"COM">>)

ThreeOrFour == {segs \in SeqsUpTo(Segments, 4) : Len(segs) >= 3}

\* C4, as stated: for a part s1-s2-s3[-s4] the script of a successful create
\* has device = s1, package = s2, speed = s3, and temp_range = s4, or "COM"
\* without a fourth segment.
C4_AsStated ==
    \A segs \in ThreeOrFour :
        (Succeeded /\ self.part = JoinDash(segs)) => ClaimedFields(segs)

\* C4, amended: for a part s1-s2-s3[-s4] the script of a successful create has
\* device = s1, speed = s2, package = s3, and temp_range = s4, or "COM" without a
\* fourth segment (so "xc7z020-clg400-1-COM" gives device xc7z020, speed clg400,
\* package 1, temp_range COM).
C4_PartDecomposition ==
    \A segs \in ThreeOrFour :
        (Succeeded /\ self.part = JoinDash(segs)) => GeneratedFields(segs)

\* the script of the part "xc7z020-clg400-1-COM", and that of a part of three
\* segments, have been written
C4_Witness ==
    /\ Succeeded
    /\ \/ /\ self.part = <<"xc7z020", "-", "clg400", "-", "1", "-", "COM">>
          /\ Field(Script, "speed") = <<"clg400">>
          /\ Field(Script, "package") = <<"1">>
       \/ /\ self.part = <<"clg400", "-", "1", "-", "xc7z020">>
          /\ Field(Script, "temp_range") = <<"COM">>
          /\ Field(Script, "package") = <<"xc7z020">>

----------------------------------------------------------------------------
(* C5: malformed part *)

FewerThanThree == {segs \in SeqsUpTo(Segments, 2) : Len(segs) >= 1}

\* C5: for a part of one or two segments, a create call that gets as far as
\* generating (its pre_create accepted, project_path was not there) raises
\* (IndexError) instead of returning, and project_path holds no script file
\* afterwards.
C5_MalformedPart ==
    \A segs \in FewerThanThree :
        (Generating /\ self.part = JoinDash(segs))
            => /\ last.result = "IndexError"
               /\ ~fs[last.path].script.has

\* create has raised on a part of two segments and left an empty directory
C5_Witness ==
    /\ Generating
    /\ self.part = <<"xc7z020", "-", "1">>
    /\ last.result = "IndexError"
    /\ fs[last.path] = EmptyDir

----------------------------------------------------------------------------
(* SpecOrder: descriptors over module lists, file lists and constraint      *)
(* lists of every order, created in one directory                           *)

\* top left out (inferred: "top_a"), the name of another module, no module's name
OrderTops == {NoneStr, SomeStr("core"), SomeStr("none")}

FilesModule(synthesis_files) == Module("top_a", "top_a", synthesis_files, <<>>)

OrderArgs ==
    {[BaseArgs EXCEPT !.modules = ms, !.top = t] :
        ms \in SeqsUpTo(ModulePool, MaxModules), t \in OrderTops}
    \cup {[BaseArgs EXCEPT !.modules = <<CoreModule, FilesModule(fl)>>, !.top = t] :
        fl \in SeqsUpTo(FilePool, MaxFiles), t \in OrderTops}
    \cup {[BaseArgs EXCEPT !.modules = <<TopModule>>, !.constraints = SomeList(cs)] :
        cs \in SeqsUpTo(ConstraintPool, MaxLen)}

InitOrder == \E a \in OrderArgs : Constructed(a)

NextOrder ==
    \/ CreateAny(OnePath, {<<>>}, {BaseHook, [result |-> FALSE, mkdir |-> FALSE]})
    \/ DeleteAny(OnePath)

SpecOrder == InitOrder /\ [][NextOrder]_vars

\* the path a file statement names: what stands between its braces
StatementPath(line) ==
    LET close == CHOOSE i \in 1..Len(line) : line[i] = "}"
    IN  SubSeq(line, 3, close - 1)

\* the elements that pass the test, then the others, each group in its order
TopFirst(seq, IsTop(_)) ==
    SelectSeq(seq, IsTop) \o SelectSeq(seq, LAMBDA e : ~IsTop(e))

\* the paths one module contributes: its HDL files, top file first, then its
\* .cxf IP cores
ModulePaths(module, project_folder) ==
    LET hdl == TopFirst(module.synthesis_files, LAMBDA f : PathStem(f.path) = self.top)
        ip == SelectSeq(module.ip_core_files, LAMBDA f : PathSuffix(f.path) = ".cxf")
    IN  [i \in 1..Len(hdl) |-> to_tcl_path(hdl[i].path, project_folder)]
        \o [i \in 1..Len(ip) |-> to_tcl_path(ip[i].path, project_folder)]

\* the paths of the modules the caller gave, top module first
ModulesPaths(project_folder) ==
    LET ms == TopFirst(heap[caller.modules], LAMBDA m : m.name = self.top)
    IN  Concat([i \in 1..Len(ms) |-> ModulePaths(ms[i], project_folder)])

\* the paths of the project constraints, as given
ConstraintPaths(project_folder) ==
    [i \in 1..Len(heap[self.constraints]) |->
        to_tcl_path(heap[self.constraints][i].file, project_folder)]

\* the paths the statements of the written script name, in the script's order
WrittenPaths ==
    LET st == FileStatements(Script) IN [i \in 1..Len(st) |-> StatementPath(st[i])]

----------------------------------------------------------------------------
(* C6: top-first stable ordering *)

\* C6: the file statements of a written script name first the files of the
\* modules whose name is top, then those of the other modules, each group in
\* the order of the caller's module list; within a module the files whose stem
\* is top come first, then the others, each group in the module's own order.
C6_TopFirstStable ==
    Succeeded =>
        SubSeq(WrittenPaths, 1, Len(WrittenPaths) - Len(heap[self.constraints]))
            = ModulesPaths(last.path)

\* a script for a list with the top module behind another module and two
\* modules of the top's name, and one for a file list with two top files
\* behind another file
C6_Witness ==
    /\ Succeeded
    /\ \/ /\ heap[caller.modules] = <<CoreModule, TopTwin, TopModule>>
          /\ heap[self.modules] = <<TopTwin, TopModule, CoreModule>>
       \/ /\ Len(heap[caller.modules]) = 2
          /\ self.top = "top_a"
          /\ heap[caller.modules][2].synthesis_files =
                << HdlFile(<<Dir("src"), Dir(".."), Dir("ip")>>, "core", ".vhd"),
                   HdlFile(<<Dir("src")>>, "top_a", ".v"),
                   HdlFile(<<Dir("src")>>, "top_a", ".vhd") >>

----------------------------------------------------------------------------
(* C3: constraints during script generation *)

Recognised == {".pdc", ".sdc", ".tcl"}

Flag(suffix) == IF suffix = ".pdc" THEN "-pdc" ELSE "-sdc"

\* some line of the text holds the flag and names the path
Linked(text, flag, path) ==
    \E i \in 1..Len(Lines(text)) :
        LET line == Lines(text)[i]
        IN  /\ \E j \in 1..Len(line) : line[j] = flag
            /\ \E j \in 1..Len(line) : line[j] = "{"
            /\ \E j \in 1..Len(line) : line[j] = "}"
            /\ StatementPath(SubSeq(line, (CHOOSE j \in 1..Len(line) : line[j] = "{") - 1,
                                    Len(line))) = path

----------------------------------------------------------------------------
(* SpecArgs: descriptors constructed with further keyword arguments, and    *)
(* create calls with keyword arguments of their own                         *)

AbsentValue == [t |-> "absent", s |-> <<>>, d |-> <<>>]

\* the dicts that hold some of the keys, in the order of `keys`, each key with
\* one of the values `values` has for it
BagsOver(keys, values) ==
    { LET held == SelectSeq([i \in 1..Len(keys) |-> i], LAMBDA i : f[i] # AbsentValue)
      IN  [j \in 1..Len(held) |-> [k |-> keys[held[j]], v |-> f[held[j]]]] :
      f \in {g \in [1..Len(keys) -> UNION {values[k] : k \in DOMAIN values}
                                      \cup {AbsentValue}] :
                \A i \in 1..Len(keys) : g[i] \in values[keys[i]] \cup {AbsentValue}} }

Fast == StrValue(<<"fast">>)
Slow == StrValue(<<"slow">>)

\* __init__(..., **other_arguments): generics and part are parameters of their
\* own there and never land in the bag; project_path is none and may
CtorBags ==
    BagsOver(<<"mode", "seed", "project_path">>,
             [mode |-> {Fast, Slow}, seed |-> {Slow}, project_path |-> {Fast}])

\* create(project_path, ip_cache_path=None, **other_arguments): generics and
\* part are none of its parameters and may land in the bag
ExtraBags ==
    BagsOver(<<"clk", "mode", "part", "generics">>,
             [clk |-> {Fast}, mode |-> {Fast, Slow}, part |-> {Fast},
              generics |-> {Slow}])

InitArgs ==
    \E bag \in CtorBags :
        Constructed([BaseArgs EXCEPT !.other_arguments = bag, !.modules = <<TopModule>>])

NextArgs ==
    \/ CreateAny(OnePath, ExtraBags, {BaseHook, [result |-> FALSE, mkdir |-> FALSE]})
    \/ DeleteAny(OnePath)

SpecArgs == InitArgs /\ [][NextArgs]_vars

KeySet(d) == {d[i].k : i \in 1..Len(d)}

----------------------------------------------------------------------------
(* C8: argument merge precedence *)

\* C8: the bag a create call passes to pre_create (the very bag it passes on
\* to the generator for the module queries) holds every key of the
\* construction-time other_arguments and of the call's own keyword arguments;
\* under "generics" and "part" it holds the descriptor's static generics and
\* part, whatever the two inputs hold there; under any other key it holds the
\* call's value when the call has the key, and the construction-time value
\* otherwise.
C8_MergePrecedence ==
    HookAsked =>
        /\ KeySet(last.bag) =
              KeySet(self.other_arguments) \cup KeySet(last.extra) \cup {"generics", "part"}
        /\ Len(last.bag) = Cardinality(KeySet(last.bag))
        /\ DictGet(last.bag, "generics") = DictValue(heap[self.static_generics])
        /\ DictGet(last.bag, "part") = StrValue(self.part)
        /\ \A k \in KeySet(last.bag) \ {"generics", "part"} :
              DictGet(last.bag, k) =
                 IF k \in KeySet(last.extra) THEN DictGet(last.extra, k)
                 ELSE DictGet(self.other_arguments, k)

\* a call whose "mode" differs from the construction-time "mode" and that
\* brings a "part" and a "generics" of its own, next to a key only the
\* constructor got
C8_Witness ==
    /\ HookAsked
    /\ self.other_arguments = <<[k |-> "mode", v |-> Slow], [k |-> "seed", v |-> Slow]>>
    /\ KeySet(last.extra) = {"mode", "part", "generics"}
    /\ DictGet(last.extra, "mode") = Fast
    /\ DictGet(last.bag, "mode") = Fast
    /\ DictGet(last.bag, "seed") = Slow
    /\ DictGet(last.bag, "part") = StrValue(GoodPart)

----------------------------------------------------------------------------
(* SpecCopy: the caller goes on changing the containers it constructed the  *)
(* descriptor with, between create calls                                    *)

TclSource == <<Dir("tcl"), File("block_design", ".tcl")>>
BuildStepHook == [hook_step |-> "STEPS.SYNTH_DESIGN.TCL.PRE", tcl_file |-> TclSource]

\* what the caller appends to a container of each kind
ItemFor(field) ==
    CASE field = "modules" -> UtilModule
      [] field = "constraints" -> Constraint(<<Dir("con")>>, "clocks", ".sdc")
      [] field = "tcl_sources" -> <<Dir("tcl"), File("pins", ".tcl")>>
      [] field = "build_step_hooks" -> [BuildStepHook EXCEPT !.hook_step = "STEPS.ROUTE_DESIGN.TCL.POST"]

\* the containers the caller keeps a reference to
KeptSets ==
    {{f} : f \in ListFields \cup {"generics"}} \cup {{"modules", "generics"}}

CopyArgs ==
    {[BaseArgs EXCEPT !.name = name, !.top = top, !.kept = kept,
                      !.modules = <<CoreModule, TopModule>>,
                      !.tcl_sources = SomeList(<<TclSource>>),
                      !.build_step_hooks = SomeList(<<BuildStepHook>>)] :
        name \in {"a", ""},
        top \in {NoneStr, SomeStr(""), SomeStr("core")},
        kept \in KeptSets}
    \cup {[BaseArgs EXCEPT !.generics = NoneDict, !.constraints = NoneList,
                           !.modules = <<>>]}

InitCopy == \E a \in CopyArgs : Constructed(a)

NextCopy ==
    \/ \E field \in ListFields : CallerAppend(field, ItemFor(field))
    \/ \E field \in ListFields \cup {"generics"} : CallerRemove(field)
    \/ \E v \in {GenericValue("int", "8"), GenericValue("int", "16")} :
           CallerSetGeneric("width", v)
    \/ CreateAny(OnePath, {<<>>}, {BaseHook})
    \/ DeleteAny(OnePath)

SpecCopy == InitCopy /\ [][NextCopy]_vars

----------------------------------------------------------------------------
(* C9: the top of a descriptor *)

\* C9, as stated: top is never empty, and it is "top_" followed by the name
\* when the constructor got no top.
C9_AsStated ==
    /\ self.top # ""
    /\ caller.top.isNone => self.top = "top_" \o caller.name

\* C9, amended: in every reachable state top is what the constructor made it:
\* "top_" followed by the name when it got no top (never empty, not even for an
\* empty name), and the top it got otherwise; so top is empty exactly when an
\* empty top was supplied.
C9_Top ==
    /\ caller.top.isNone => (self.top = "top_" \o caller.name /\ self.top # "")
    /\ ~caller.top.isNone => self.top = caller.top.s
    /\ (self.top = "") <=> (~caller.top.isNone /\ caller.top.s = "")

\* a descriptor constructed without a top, after a create call that succeeded
C9_Witness ==
    /\ Succeeded
    /\ caller.top.isNone
    /\ caller.name = "a"
    /\ self.top = "top_a"

----------------------------------------------------------------------------
(* C10: construction-time copy isolation *)

\* the descriptor's collections, by content
Collections ==
    << heap[self.modules], heap[self.static_generics], heap[self.constraints],
       heap[self.tcl_sources], heap[self.build_step_hooks] >>

\* C10: a step of the caller on one of the containers it constructed the
\* descriptor with (append, pop, item assignment) changes none of the
\* descriptor's collections, and a create call changes neither the membership
\* nor the order of the caller's module container.
C10_CopyIsolation ==
    [][ /\ last'.op \in {"append", "remove", "set"} => Collections' = Collections
        /\ (last'.op = "create" /\ caller.modules # NoRef)
              => heap'[caller.modules] = heap[caller.modules] ]_vars

\* the caller has popped a module from its list and set a generic, the
\* descriptor has reordered its own list in a create call, and each side holds
\* what its own steps made of it
C10_Witness ==
    /\ caller.modules # NoRef /\ caller.generics # NoRef
    /\ heap[caller.modules] = <<CoreModule>>
    /\ heap[self.modules] = <<TopModule, CoreModule>>
    /\ heap[caller.generics] # heap[self.static_generics]
    /\ heap[self.static_generics] = BaseGenerics

----------------------------------------------------------------------------
(* tcl.py: LiberoTcl._add_generics, the serializer of a generics mapping *)

MaxGenerics == 2

\* the values a generic may have: a bool, an int, a str
BoolGeneric(b) == [t |-> "bool", b |-> b, n |-> 0, s |-> ""]
IntGeneric(n) == [t |-> "int", b |-> FALSE, n |-> n, s |-> ""]
StrGeneric(s) == [t |-> "str", b |-> FALSE, n |-> 0, s |-> s]

Digits == <<"0", "1", "2", "3", "4", "5", "6", "7", "8", "9">>

RECURSIVE IntText(_)
\* str(n) of an int: its decimal digits, after a minus sign when negative
IntText(n) ==
    IF n < 0 THEN "-" \o IntText(0 - n)
    ELSE IF n < 10 THEN Digits[n + 1]
    ELSE IntText(n \div 10) \o Digits[(n % 10) + 1]

\* f"{value}": str() of a bool is the bare word, of an int its digits, of a
\* str the str itself
FormatValue(value) ==
    IF value.t = "bool" THEN (IF value.b THEN "True" ELSE "False")
    ELSE IF value.t = "int" THEN IntText(value.n)
    ELSE value.s

\* an entry that formats every value alike, bools too
GenericEntryPlain(name, value) == <<name, "=", FormatValue(value)>>

\* one entry of generic_list: name=value, a bool as a one-bit literal
GenericEntry(name, value) ==
    IF value.t = "bool"
    THEN <<name, "=", IF value.b THEN "1'b1" ELSE "1'b0">>
    ELSE <<name, "=", FormatValue(value)>>

RECURSIVE JoinSpace(_)
\* " ".join(generic_list)
JoinSpace(generic_list) ==
    IF generic_list = <<>> THEN <<>>
    ELSE IF Len(generic_list) = 1 THEN generic_list[1]
    ELSE generic_list[1] \o <<" ">> \o JoinSpace(Tail(generic_list))

\* _add_generics(generics): "" for None and for an empty dict, one command
\* otherwise
_add_generics(generics) ==
    IF generics.isNone \/ generics.d = <<>>
    THEN <<>>
    ELSE LET generic_list ==
                 [i \in 1..Len(generics.d) |->
                     GenericEntry(generics.d[i].k, generics.d[i].v)]
         IN  <<"set_property generic {">> \o JoinSpace(generic_list)
                \o <<"} [current_fileset]\n">>

\* the serializer applied to the static generics of the descriptor
AddGenerics ==
    LET generics == SomeDict(heap[self.static_generics])
    IN  /\ last' = [op |-> "_add_generics", generics |-> generics,
                    tcl |-> _add_generics(generics)]
        /\ UNCHANGED <<heap, caller, self, fs>>

----------------------------------------------------------------------------
(* SpecGenerics: descriptors constructed with mappings of up to MaxGenerics   *)
(* names, with bools, ints (0 and 1 among them) and strs (the word True among *)
(* them) as values, and the serializer applied to their generics              *)

GenericNames == {"enable", "width", "label"}

GenericValues ==
    { BoolGeneric(TRUE), BoolGeneric(FALSE),
      IntGeneric(0), IntGeneric(1), IntGeneric(8), IntGeneric(16), IntGeneric(0 - 3),
      StrGeneric("True"), StrGeneric("fast") }

\* the dicts of up to n names, in every insertion order
GenericDicts(n) ==
    { d \in SeqsUpTo([k : GenericNames, v : GenericValues], n) :
        \A i, j \in 1..Len(d) : d[i].k = d[j].k => i = j }

GenericMappings == {NoneDict} \cup {SomeDict(d) : d \in GenericDicts(MaxGenerics)}

InitGenerics ==
    \E generics \in GenericMappings :
        Constructed([BaseArgs EXCEPT !.generics = generics, !.modules = <<TopModule>>])

NextGenerics == AddGenerics

SpecGenerics == InitGenerics /\ [][NextGenerics]_vars

----------------------------------------------------------------------------
(* C11: generic serialization *)

\* the text a value is to be rendered by: the one-bit literal of a bool, the
\* natural text of any other value
RenderedAs(value) ==
    CASE value = BoolGeneric(TRUE) -> "1'b1"
      [] value = BoolGeneric(FALSE) -> "1'b0"
      [] value = IntGeneric(0) -> "0"
      [] value = IntGeneric(1) -> "1"
      [] value = IntGeneric(8) -> "8"
      [] value = IntGeneric(16) -> "16"
      [] value = IntGeneric(0 - 3) -> "-3"
      [] value = StrGeneric("True") -> "True"
      [] value = StrGeneric("fast") -> "fast"

Serialized == last.op = "_add_generics"

\* C11: the serializer returns the empty text for an empty mapping; for any
\* other mapping it returns exactly one command, "set_property generic {...}
\* [current_fileset]", whose braces hold one entry name=value per name of the
\* mapping, in the mapping's insertion order and with a single space between
\* two entries; a bool is rendered as 1'b1 or 1'b0 and never as a bare word,
\* any other value by its natural text.
C11_GenericSerialization ==
    Serialized =>
        LET d == last.generics.d
            tcl == last.tcl
            entries == Split(SubSeq(tcl, 2, Len(tcl) - 1), " ")
        IN  /\ d = <<>> => tcl = <<>>
            /\ d # <<>> =>
                 /\ Len(tcl) >= 2
                 /\ Head(tcl) = "set_property generic {"
                 /\ tcl[Len(tcl)] = "} [current_fileset]\n"
                 /\ \A i \in 2..(Len(tcl) - 1) :
                        tcl[i] \notin {"set_property generic {", "} [current_fileset]\n"}
                 /\ Len(entries) = Len(d)
                 /\ \A i \in 1..Len(d) :
                        /\ entries[i] = <<d[i].k, "=", RenderedAs(d[i].v)>>
                        /\ d[i].v.t = "bool" => entries[i][3] \notin {"True", "False"}

\* {enable: true, width: 8} has been serialized to enable=1'b1 width=8
C11_Witness ==
    /\ Serialized
    /\ last.generics = SomeDict(<< [k |-> "enable", v |-> BoolGeneric(TRUE)],
                                   [k |-> "width", v |-> IntGeneric(8)] >>)
    /\ last.tcl = << "set_property generic {", "enable", "=", "1'b1", " ",
                     "width", "=", "8", "} [current_fileset]\n" >>

----------------------------------------------------------------------------
(* SpecSteps: create calls with hooks of every behaviour, on directories that *)
(* are there and that are not, of descriptors whose keyword arguments can and *)
(* cannot be passed on to pre_create                                          *)

StepBags == { <<>>, <<[k |-> "project_path", v |-> StrValue(<<"elsewhere">>)]>> }

InitSteps == \E bag \in StepBags : Constructed([BaseArgs EXCEPT !.other_arguments = bag])

NextSteps ==
    \/ CreateAny(ProjectPaths, LifeExtras, HookBehaviours)
    \/ DeleteAny(ProjectPaths)

SpecSteps == InitSteps /\ [][NextSteps]_vars

----------------------------------------------------------------------------
(* C12: step order of create *)

====
